---- MODULE Spec2Model ----
(***************************************************************************)
(* Model of the real-time gateway of the chat backend (socket handler):     *)
(* the connection registry onlineUsers, the socket.io room membership of    *)
(* every socket, the typing maps, and the persisted rooms/users/messages    *)
(* the handlers read and write.  Every async handler is split at its await  *)
(* points: the part before the first await runs when the event arrives, and *)
(* each continuation is a record in `pending` that resumes later, in any    *)
(* order relative to the other handlers.                                    *)
(*                                                                          *)
(* `out` is the sequence of emit calls made by the last step; an emit is    *)
(* [ev, to, user, room]: the event name, the socket it is addressed to, the *)
(* user named in the payload and the room in the payload ("-" when none).   *)
(***************************************************************************)
EXTENDS Integers, Sequences, FiniteSets, TLC

\* ---------------------------------------------------------------- bounds
MaxSockets == 2
MaxPending == 2
MaxMsgs == 1
\* Date.now() advances up to MaxTicks steps of TickMs.
MaxTicks == 6

\* ---------------------------------------------------------------- universe
Users == {"u1", "u2"}
Rooms == {"r1", "r2"}
None == "-"

\* Stored accounts whose isActive is false, and the ids a token may carry: a
\* user, a deactivated account, or an id with no account.
Deactivated == {"u3"}
TokenUsers == Users \cup Deactivated \cup {"u4"}
\* The handshake carries no token.
NoToken == [present |-> FALSE, signed |-> FALSE, userId |-> None]
\* The tokens a client may present: none, one that fails verification, or a
\* verifiable one for some id.
Tokens ==
    {NoToken, [present |-> TRUE, signed |-> FALSE, userId |-> "u1"]}
        \cup {[present |-> TRUE, signed |-> TRUE, userId |-> u] : u \in TokenUsers}

\* Users in the order Array.prototype.sort puts their ids.
IdOrder == <<"u1", "u2">>
\* Rooms in the order a query returns them.
RoomOrder == <<"r1", "r2">>

\* The rooms as createRoom stored them: type and creator never change.
RoomType == [r \in Rooms |-> IF r = "r1" THEN "public" ELSE "private"]
RoomCreator == [r \in Rooms |-> IF r = "r1" THEN "u1" ELSE "u2"]

SocketIds == 1..MaxSockets

\* Message contents a client may send.
Contents == {"", " ", "hi"}
Trim(c) == IF c = " " THEN "" ELSE c

\* cleanupTypingIndicators: the age limit of a private typing session, and the
\* period of the interval timer that runs the sweep (milliseconds).
TYPING_TIMEOUT == 10000
CleanupInterval == 30000
\* Time is observed in steps of one timeout.
TickMs == TYPING_TIMEOUT

VARIABLES
    sockets,       \* socket id -> [status, userId]: "new" | "connected" | "closed"
    joined,        \* socket id -> set of socket.io rooms the socket is in
    onlineUsers,   \* the Map onlineUsers, as its set of entries [userId, socketId, rooms]
    typingUsers,   \* the Map typingUsers: a function from the room ids it has to sets of users
    privateTyping, \* the Map privateTyping: a function from the conversation keys it has to [userId]
    rooms,         \* persisted Room documents: room id -> [exists, isActive, members, messageCount]
    isOnline,      \* persisted User.isOnline
    messages,      \* persisted Message documents, in creation order
    pending,       \* continuations of handlers suspended at an await
    out,           \* emit calls of the last step
    now,           \* Date.now(), milliseconds since initializeSocket
    lastSweep,     \* the time the interval timer last ran cleanupTypingIndicators
    typedAt,       \* <<room, user>> of every room typing session -> the time of the
                   \* user's last typing_start there (kept for the properties only)
    users,         \* persisted User documents: user id -> [blockedUsers, status]
    changes,       \* what was done to the persisted messages, by index in `messages`:
                   \* [edited, deleted: sets of indexes, reactions: set of <<index, user>>]
    running,       \* the server process is up
    keys,          \* a call of getConversationKey on ids spelled out as characters:
                   \* the ids of two pairs and the keys returned for them
    indicators     \* what the clients show (kept for the properties only): when `on`,
                   \* `set` holds <<socket, typist, scope>> for every connected socket
                   \* that was sent the typist's typing_start for a scope (a room, or
                   \* None for the private conversation) whose session still exists

vars == <<sockets, joined, onlineUsers, typingUsers, privateTyping, rooms, isOnline,
          messages, pending, out, now, lastSweep, typedAt, users, changes, running, keys,
          indicators>>

live == <<sockets, joined, onlineUsers, typingUsers, privateTyping>>
db == <<rooms, isOnline, messages, users, changes>>
clock == <<now, lastSweep, typedAt>>

\* ---------------------------------------------------------------- Map helpers
MapHas(m, k) == \E e \in m : e.userId = k
MapGet(m, k) == CHOOSE e \in m : e.userId = k
\* Map.set that adds the entry beside an older one for the key.
MapSetKeepOld(m, k, e) == m \cup {e}
MapSet(m, k, e) == {x \in m : x.userId # k} \cup {e}
MapDelete(m, k) == {x \in m : x.userId # k}

\* A Map kept as a function: delete and set of one key.
FnDelete(f, k) == [x \in (DOMAIN f) \ {k} |-> f[x]]
FnSet(f, k, v) == [x \in (DOMAIN f) \cup {k} |-> IF x = k THEN v ELSE f[x]]

Task(h, s, room, peer) == [h |-> h, s |-> s, room |-> room, peer |-> peer]
Emit(ev, to, user, room) == [ev |-> ev, to |-> to, user |-> user, room |-> room]

\* ---------------------------------------------------------------- socket.io
Connected == {s \in SocketIds : sockets[s].status = "connected"}
UserOf(s) == sockets[s].userId

\* The sockets of the namespace that are in room r.
InRoom(j, r) == {s \in Connected : r \in j[s]}

RECURSIVE EmitTo(_, _, _, _)
\* One emit per socket of `targets`, in socket id order.
EmitTo(targets, ev, user, room) ==
    IF targets = {} THEN <<>>
    ELSE LET t == CHOOSE x \in targets : \A y \in targets : x <= y
         IN <<Emit(ev, t, user, room)>> \o EmitTo(targets \ {t}, ev, user, room)

\* socket.to(room).emit(ev, ...): every socket in the room except the sender.
SocketToEmit(j, s, r, ev, user) == EmitTo(InRoom(j, r) \ {s}, ev, user, r)
\* io.emit(ev, ...): every connected socket.
IoEmit(ev, user) == EmitTo(Connected, ev, user, None)
\* io.to(socketId) that reaches every connected socket.
IoToEmitAll(sid, ev, user) == EmitTo(Connected, ev, user, None)
\* io.to(socketId).emit(ev, ...): the socket with that id, if it is connected.
IoToEmit(sid, ev, user) == EmitTo(Connected \cap {sid}, ev, user, None)
\* socket.emit(ev, ...): addressed to the socket itself.
SocketEmit(s, ev, user, room) == <<Emit(ev, s, user, room)>>

\* socket.emit(SOCKET_EVENTS.ERROR, { message, error: error.message }) in the
\* catch block: `message` stands for the text of the caught error.
ErrorEmit(s, user, message) ==
    <<[ev |-> "error", to |-> s, user |-> user, room |-> None, message |-> message]>>

\* socket.join / socket.leave; a closed socket is no longer in the namespace.
SocketJoin(j, s, r) == IF s \in Connected THEN [j EXCEPT ![s] = @ \cup {r}] ELSE j
SocketLeave(j, s, r) == [j EXCEPT ![s] = @ \ {r}]

\* ---------------------------------------------------------------- pure helpers
Rank(id) == CHOOSE i \in 1..Len(IdOrder) : IdOrder[i] = id
getConversationKey(userId1, userId2) ==
    IF Rank(userId1) <= Rank(userId2) THEN userId1 \o ":" \o userId2
    ELSE userId2 \o ":" \o userId1

\* ---------------------------------------------------------------- conversation key
\* User ids are the hexadecimal strings of ObjectIds; here they are sequences
\* of at most MaxIdLen characters of IdChars, which is in code unit order.
MaxIdLen == 2
IdChars == <<"0", "a", "f">>
Ids == UNION {[1..n -> {IdChars[i] : i \in DOMAIN IdChars}] : n \in 1..MaxIdLen}

CharRank(c) == CHOOSE i \in DOMAIN IdChars : IdChars[i] = c

RECURSIVE Less(_, _)
\* The default comparison of Array.prototype.sort: strings by code units, a
\* proper prefix first.
Less(x, y) ==
    IF y = <<>> THEN FALSE
    ELSE IF x = <<>> THEN TRUE
    ELSE IF Head(x) # Head(y) THEN CharRank(Head(x)) < CharRank(Head(y))
    ELSE Less(Tail(x), Tail(y))

\* [userId1, userId2] as given.
Unsorted(userId1, userId2) == <<userId1, userId2>>

\* [userId1, userId2].sort()
Sorted(userId1, userId2) ==
    IF Less(userId2, userId1) THEN <<userId2, userId1>> ELSE <<userId1, userId2>>

\* getConversationKey on spelled-out ids: [userId1, userId2].sort().join(':')
ConversationKey(userId1, userId2) ==
    Sorted(userId1, userId2)[1] \o <<":">> \o Sorted(userId1, userId2)[2]

\* No call has been made.
NoKeys == [a |-> <<>>, b |-> <<>>, c |-> <<>>, d |-> <<>>,
           ab |-> <<>>, ba |-> <<>>, cd |-> <<>>]

\* user.hasBlocked that never finds a blocked user.
hasBlockedNobody(a, b) == FALSE
\* user.hasBlocked(userId) of user a: b is in a's blockedUsers.
hasBlocked(a, b) == b \in users[a].blockedUsers

isMember(r, u) == u \in rooms[r].members
isCreator(r, u) == RoomCreator[r] = u
\* room.isAdmin: the admins list holds the creator only, as createRoom leaves it.
isAdmin(r, u) == RoomCreator[r] = u

cleanupUserDataRegistry(m, userId, socketId) ==
    IF MapHas(m, userId) /\ MapGet(m, userId).socketId = socketId
    THEN MapDelete(m, userId) ELSE m

cleanupUserDataTyping(t, userId) ==
    LET kept == {r \in DOMAIN t : ~(userId \in t[r] /\ t[r] \ {userId} = {})}
    IN [r \in kept |-> t[r] \ {userId}]

cleanupUserDataPrivate(p, userId) ==
    [k \in {x \in DOMAIN p : p[x].userId # userId} |-> p[k]]

\* The room typing sessions of the Map t, and the start times of those that
\* are still in it.
Sessions(t) == {x \in (DOMAIN t) \X Users : x[2] \in t[x[1]]}
KeepSessions(g, t) == [x \in Sessions(t) \cap DOMAIN g |-> g[x]]

\* ---------------------------------------------------------------- indicators
\* The typing session of typist u for the scope, seen from socket t, is in the
\* maps tu (typingUsers) and pt (privateTyping); ss is the sockets.
HasSessionIn(tu, pt, ss, t, u, scope) ==
    IF scope = None
    THEN LET k == getConversationKey(u, ss[t].userId)
         IN k \in DOMAIN pt /\ pt[k].userId = u
    ELSE scope \in DOMAIN tu /\ u \in tu[scope]

\* The indicators after a step: those of the typing_start emits of the step
\* are added, those of its typing_stop emits are removed, and only those of
\* connected sockets (in the room, for a room scope) for sessions that still
\* exist are kept.
Indicated(set) ==
    LET started == {<<out'[i].to, out'[i].user, out'[i].room>> :
                        i \in {j \in DOMAIN out' : out'[j].ev = "typing_start"}}
        stopped == {<<out'[i].to, out'[i].user, out'[i].room>> :
                        i \in {j \in DOMAIN out' : out'[j].ev = "typing_stop"}}
    IN {x \in (set \cup started) \ stopped :
            /\ sockets'[x[1]].status = "connected"
            /\ x[3] # None => x[3] \in joined'[x[1]]
            /\ HasSessionIn(typingUsers', privateTyping', sockets', x[1], x[2], x[3])}

Indicate ==
    indicators' = IF indicators.on THEN [indicators EXCEPT !.set = Indicated(@)]
                  ELSE indicators

\* ---------------------------------------------------------------- Init
\* The gateway after initializeSocket, before any connection.
Start ==
    /\ sockets = [s \in SocketIds |-> [status |-> "new", userId |-> None, token |-> NoToken]]
    /\ joined = [s \in SocketIds |-> {}]
    /\ onlineUsers = {}
    /\ typingUsers = <<>>
    /\ privateTyping = <<>>
    /\ rooms = [r \in Rooms |-> [exists |-> TRUE, isActive |-> TRUE, members |-> {RoomCreator[r]},
                                  messageCount |-> 0]]
    /\ isOnline = [u \in Users |-> FALSE]
    /\ messages = <<>>
    /\ pending = {}
    /\ out = <<>>
    /\ now = 0
    /\ lastSweep = 0
    /\ typedAt = <<>>
    /\ users = [u \in Users |-> [blockedUsers |-> {}, status |-> None]]
    /\ changes = [edited |-> {}, deleted |-> {}, reactions |-> {}]
    /\ running = TRUE

Init == Start /\ keys = NoKeys /\ indicators = [on |-> FALSE, set |-> {}]

\* The ids of two pairs, before the keys are computed.
InitKeys ==
    /\ Start
    /\ indicators = [on |-> FALSE, set |-> {}]
    /\ keys \in {[NoKeys EXCEPT !.a = a, !.b = b, !.c = c, !.d = d] : a \in Ids, b \in Ids, c \in Ids, d \in Ids}

\* The keys of the pairs (a, b), (b, a) and (c, d) are computed.
ComputeKeys ==
    /\ keys.ab = <<>>
    /\ keys.a # <<>>
    /\ keys' = [keys EXCEPT !.ab = ConversationKey(keys.a, keys.b),
                            !.ba = ConversationKey(keys.b, keys.a),
                            !.cd = ConversationKey(keys.c, keys.d)]
    /\ out' = <<>>
    /\ UNCHANGED <<live, db, clock, pending, running>>
    /\ Indicate

SpecKeys == InitKeys /\ [][ComputeKeys]_vars

CanSuspend == Cardinality(pending) < MaxPending

\* ---------------------------------------------------------------- authentication
\* jwt.verify without the signature and expiry check.
verifyTokenUnchecked(token) == token.userId

\* verifyToken: the decoded user id, or None where it throws (a forged or
\* expired token).
verifyToken(token) == IF token.signed THEN token.userId ELSE None

\* getUserFromToken: the user, or None where it throws (no such user, or a
\* deactivated one).
getUserFromToken(userId) == IF userId \in Users THEN userId ELSE None

\* authenticateSocket: the user id set on the socket, or None where the
\* middleware calls next with an error.
authenticateSocket(token) ==
    IF ~token.present THEN None
    ELSE IF verifyToken(token) = None THEN None
    ELSE getUserFromToken(verifyToken(token))

\* ---------------------------------------------------------------- connection
\* The middleware refuses the handshake: no connection event is raised.
Reject(s, token) ==
    /\ running
    /\ sockets[s].status = "new"
    /\ \A t \in SocketIds : t < s => sockets[t].status # "new"
    /\ sockets' = [sockets EXCEPT ![s] = [status |-> "rejected", userId |-> None, token |-> token]]
    /\ out' = <<>>
    /\ UNCHANGED <<joined, onlineUsers, typingUsers, privateTyping, db, clock, pending, running, keys>>
    /\ Indicate

\* handleConnection up to its first await: the registry entry is installed.
Connect(s, u, token) ==
    /\ running
    /\ sockets[s].status = "new"
    /\ \A t \in SocketIds : t < s => sockets[t].status # "new"
    /\ CanSuspend
    /\ sockets' = [sockets EXCEPT ![s] = [status |-> "connected", userId |-> u, token |-> token]]
    /\ onlineUsers' = MapSet(onlineUsers, u, [userId |-> u, socketId |-> s, rooms |-> {}])
    /\ pending' = pending \cup {Task("connect", s, None, None)}
    /\ out' = <<>>
    /\ UNCHANGED <<joined, typingUsers, privateTyping, db, clock, running, keys>>
    /\ Indicate

\* The rooms of `rs`, in query order.
RoomSeq(rs) == SelectSeq(RoomOrder, LAMBDA r : r \in rs)

RECURSIVE RoomEmits(_, _, _, _, _)
\* socket.to(room).emit(ev, ...) for each room of the sequence, in order.
RoomEmits(j, s, rseq, ev, user) ==
    IF rseq = <<>> THEN <<>>
    ELSE SocketToEmit(j, s, Head(rseq), ev, user) \o RoomEmits(j, s, Tail(rseq), ev, user)

\* The snapshot without the filter on the socket's own user.
sendOnlineUsersListAll(s) ==
    <<[ev |-> "online_users", to |-> s, user |-> UserOf(s), room |-> None,
       users |-> {e.userId : e \in onlineUsers}]>>

\* sendOnlineUsersList(socket): the users of the registry other than the
\* socket's own, emitted to the socket.
sendOnlineUsersList(s) ==
    <<[ev |-> "online_users", to |-> s, user |-> UserOf(s), room |-> None,
       users |-> {e.userId : e \in {f \in onlineUsers : f.userId # UserOf(s)}}]>>

\* handleConnection after `await User.findByIdAndUpdate`: the user is stored
\* online, user_online goes to every socket, the snapshot to the new socket.
ConnectSetOnline(p) ==
    LET s == p.s
        u == UserOf(s)
    IN /\ p \in pending
       /\ p.h = "connect"
       /\ isOnline' = [isOnline EXCEPT ![u] = TRUE]
       /\ out' = IoEmit("user_online", u) \o sendOnlineUsersList(s)
       /\ pending' = (pending \ {p}) \cup {Task("connect2", s, None, None)}
       /\ UNCHANGED <<live, rooms, messages, clock, users, changes, running, keys>>
       /\ Indicate

\* Room.find({members: userId, isActive: true})
UserRooms(u) == {r \in Rooms : rooms[r].exists /\ rooms[r].isActive /\ u \in rooms[r].members}

\* handleConnection after `await Room.find`: the socket joins every persisted
\* room of the user and the rooms are added to the registry entry found under
\* the user id.  Without an entry the first iteration throws after socket.join
\* and the catch reports the error.
ConnectJoinRooms(p) ==
    LET s == p.s
        u == UserOf(s)
        ur == UserRooms(u)
        first == Head(RoomSeq(ur))
    IN /\ p \in pending
       /\ p.h = "connect2"
       /\ pending' = pending \ {p}
       /\ IF ur # {} /\ ~MapHas(onlineUsers, u)
          THEN /\ joined' = SocketJoin(joined, s, first)
               /\ onlineUsers' = onlineUsers
               /\ out' = SocketEmit(s, "error", u, None)
          ELSE /\ joined' = IF s \in Connected THEN [joined EXCEPT ![s] = @ \cup ur] ELSE joined
               /\ onlineUsers' =
                     IF ur = {} THEN onlineUsers
                     ELSE LET e == MapGet(onlineUsers, u)
                          IN MapSet(onlineUsers, u, [e EXCEPT !.rooms = @ \cup ur])
               /\ out' = RoomEmits(joined, s, RoomSeq(ur), "user_online", u)
                            \o SocketEmit(s, "connected", u, None)
       /\ UNCHANGED <<sockets, typingUsers, privateTyping, db, clock, running, keys>>
       /\ Indicate

\* ---------------------------------------------------------------- disconnection
\* The continuation of handleDisconnection for socket s.  For the properties it
\* also remembers what the close destroyed: the rooms the socket was in and
\* whether the registry entry of its user named it.
ClosingTask(s) ==
    [h |-> "disconnect", s |-> s, room |-> None, peer |-> None,
     had |-> joined[s],
     registered |-> MapHas(onlineUsers, UserOf(s)) /\ MapGet(onlineUsers, UserOf(s)).socketId = s]

\* The socket closes (socket.io takes it out of every room), then
\* handleDisconnection runs up to its await: cleanupUserData.
Disconnect(s) ==
    LET u == UserOf(s)
    IN /\ sockets[s].status = "connected"
       /\ CanSuspend
       /\ sockets' = [sockets EXCEPT ![s].status = "closed"]
       /\ joined' = [joined EXCEPT ![s] = {}]
       /\ onlineUsers' = cleanupUserDataRegistry(onlineUsers, u, s)
       /\ typingUsers' = cleanupUserDataTyping(typingUsers, u)
       /\ privateTyping' = cleanupUserDataPrivate(privateTyping, u)
       /\ pending' = pending \cup {ClosingTask(s)}
       /\ out' = <<>>
       /\ typedAt' = KeepSessions(typedAt, typingUsers')
       /\ UNCHANGED <<db, now, lastSweep, running, keys>>
       /\ Indicate

\* handleDisconnection after `await User.findByIdAndUpdate`: the user is stored
\* offline, user_offline goes to every socket, then to the rooms of whatever
\* entry the registry holds for the user now.
DisconnectFinish(p) ==
    LET s == p.s
        u == UserOf(s)
        rs == IF MapHas(onlineUsers, u) THEN MapGet(onlineUsers, u).rooms ELSE {}
    IN /\ p \in pending
       /\ p.h = "disconnect"
       /\ pending' = pending \ {p}
       /\ isOnline' = [isOnline EXCEPT ![u] = FALSE]
       /\ out' = IoEmit("user_offline", u) \o RoomEmits(joined, s, RoomSeq(rs), "user_offline", u)
       /\ UNCHANGED <<live, rooms, messages, clock, users, changes, running, keys>>
       /\ Indicate

\* ---------------------------------------------------------------- rooms
\* roomService.getRoomById(roomId, userId): throws for a missing or inactive
\* room, and for a private room the user is not a member of.
getRoomById(r, u) ==
    /\ rooms[r].exists
    /\ rooms[r].isActive
    /\ (RoomType[r] = "private" => isMember(r, u))

\* messageService.getRoomMessages(roomId, userId): throws for a missing room
\* and for a user who is not a member.
getRoomMessages(r, u) == rooms[r].exists /\ isMember(r, u)

\* handleJoinRoom up to `await roomService.getRoomById`.
JoinRoom(s, r) ==
    LET u == UserOf(s)
    IN /\ s \in Connected
       /\ IF r = None
          THEN /\ out' = SocketEmit(s, "error", u, None)
               /\ pending' = pending
          ELSE /\ CanSuspend
               /\ out' = <<>>
               /\ pending' = pending \cup {Task("join", s, r, None)}
       /\ UNCHANGED <<live, db, clock, running, keys>>
       /\ Indicate

\* handleJoinRoom after getRoomById: on success the socket joins the room, the
\* room is added to the entry the registry holds for the user, user_joined
\* goes to the room and room_joined to the socket.
JoinRoomResume(p) ==
    LET s == p.s
        u == UserOf(s)
        r == p.room
    IN /\ p \in pending
       /\ p.h = "join"
       /\ IF getRoomById(r, u)
          THEN /\ joined' = SocketJoin(joined, s, r)
               /\ onlineUsers' =
                     IF MapHas(onlineUsers, u)
                     THEN LET e == MapGet(onlineUsers, u)
                          IN MapSet(onlineUsers, u, [e EXCEPT !.rooms = @ \cup {r}])
                     ELSE onlineUsers
               /\ out' = SocketToEmit(joined, s, r, "user_joined", u)
                            \o SocketEmit(s, "room_joined", u, r)
               /\ pending' = (pending \ {p}) \cup {Task("join2", s, r, None)}
          ELSE /\ out' = SocketEmit(s, "error", u, None)
               /\ pending' = pending \ {p}
               /\ UNCHANGED <<joined, onlineUsers>>
       /\ UNCHANGED <<sockets, typingUsers, privateTyping, db, clock, running, keys>>
       /\ Indicate

\* handleJoinRoom after `await messageService.getRoomMessages`: the history
\* page goes to the socket, or the catch reports the failure.
JoinRoomMessages(p) ==
    LET s == p.s
        u == UserOf(s)
        r == p.room
    IN /\ p \in pending
       /\ p.h = "join2"
       /\ pending' = pending \ {p}
       /\ IF getRoomMessages(r, u)
          THEN /\ out' = SocketEmit(s, "room_messages", u, r)
          ELSE /\ out' = SocketEmit(s, "error", u, None)
       /\ UNCHANGED <<live, db, clock, running, keys>>
       /\ Indicate

\* handleLeaveRoom up to `await Room.findById`.
LeaveRoom(s, r) ==
    LET u == UserOf(s)
    IN /\ s \in Connected
       /\ IF r = None
          THEN /\ out' = SocketEmit(s, "error", u, None)
               /\ pending' = pending
          ELSE /\ CanSuspend
               /\ out' = <<>>
               /\ pending' = pending \cup {Task("leave", s, r, None)}
       /\ UNCHANGED <<live, db, clock, running, keys>>
       /\ Indicate

\* handleLeaveRoom after Room.findById.
LeaveRoomResume(p) ==
    LET s == p.s
        u == UserOf(s)
        r == p.room
        j2 == SocketLeave(joined, s, r)
        hasT == r \in DOMAIN typingUsers
        rest == IF hasT THEN typingUsers[r] \ {u} ELSE {}
    IN /\ p \in pending
       /\ p.h = "leave"
       /\ pending' = pending \ {p}
       /\ IF rooms[r].exists
          THEN /\ joined' = j2
               /\ onlineUsers' =
                     IF MapHas(onlineUsers, u)
                     THEN LET e == MapGet(onlineUsers, u)
                          IN MapSet(onlineUsers, u, [e EXCEPT !.rooms = @ \ {r}])
                     ELSE onlineUsers
               /\ typingUsers' =
                     IF ~hasT THEN typingUsers
                     ELSE IF rest = {} THEN FnDelete(typingUsers, r)
                     ELSE FnSet(typingUsers, r, rest)
               /\ out' = (IF hasT /\ rest # {}
                          THEN SocketToEmit(j2, s, r, "typing_stop", u) ELSE <<>>)
                            \o SocketToEmit(j2, s, r, "user_left", u)
                            \o SocketEmit(s, "room_left", u, r)
          ELSE /\ out' = SocketEmit(s, "error", u, None)
               /\ UNCHANGED <<joined, onlineUsers, typingUsers>>
       /\ typedAt' = KeepSessions(typedAt, typingUsers')
       /\ UNCHANGED <<sockets, privateTyping, db, now, lastSweep, running, keys>>
       /\ Indicate

\* ---------------------------------------------------------------- messages
\* The checks of messageService.createMessage that read the room: the room
\* exists, is active and the sender is a persisted member of it.
createMessageRoomOk(r, u) == rooms[r].exists /\ rooms[r].isActive /\ isMember(r, u)

InFlightSends == {p \in pending : p.h \in {"send", "send_private"}}
CanStore == Len(messages) + Cardinality(InFlightSends) < MaxMsgs

\* typingUsers.get(roomId).delete(userId) that deletes nothing.
TypingSetKeep(t, r, u) == t
\* typingUsers.get(roomId).delete(userId): the set stays in the Map, even empty.
TypingSetDelete(t, r, u) == FnSet(t, r, t[r] \ {u})

\* handleSendMessage up to `await messageService.createMessage`.
SendMessage(s, r, content) ==
    LET u == UserOf(s)
    IN /\ s \in Connected
       /\ IF r = None \/ content = "" \/ Trim(content) = ""
          THEN /\ out' = SocketEmit(s, "error", u, None)
               /\ pending' = pending
          ELSE /\ CanSuspend
               /\ CanStore
               /\ rooms[r].messageCount < MaxMsgs
               /\ out' = <<>>
               /\ pending' = pending \cup {Task("send", s, r, None)}
       /\ UNCHANGED <<live, db, clock, running, keys>>
       /\ Indicate

\* handleSendMessage after createMessage.  `valid` is the outcome of the checks
\* createMessage makes before it reads the room and of the muted-room check
\* (content length, message type); `replyOk` is the outcome of its checks of
\* the reply target, which run after room.incrementMessageCount() was saved.
SendMessageResume(p, valid, replyOk) ==
    LET s == p.s
        u == UserOf(s)
        r == p.room
        typing == r \in DOMAIN typingUsers /\ u \in typingUsers[r]
    IN /\ p \in pending
       /\ p.h = "send"
       /\ pending' = pending \ {p}
       /\ IF valid /\ createMessageRoomOk(r, u)
          THEN /\ rooms' = [rooms EXCEPT ![r].messageCount = @ + 1]
               /\ IF replyOk
                  THEN /\ messages' = Append(messages, [sender |-> u, room |-> r, recipient |-> None])
                       /\ typingUsers' = IF typing THEN TypingSetDelete(typingUsers, r, u)
                                         ELSE typingUsers
                       /\ out' = SocketToEmit(joined, s, r, "message_received", u)
                                    \o SocketEmit(s, "message_sent", u, r)
                                    \o (IF typing THEN SocketToEmit(joined, s, r, "typing_stop", u)
                                        ELSE <<>>)
                  ELSE /\ out' = SocketEmit(s, "error", u, None)
                       /\ UNCHANGED <<messages, typingUsers>>
          ELSE /\ out' = SocketEmit(s, "error", u, None)
               /\ UNCHANGED <<messages, typingUsers, rooms>>
       /\ typedAt' = KeepSessions(typedAt, typingUsers')
       /\ UNCHANGED <<sockets, joined, onlineUsers, privateTyping, isOnline, now, lastSweep, users, changes, running, keys>>
       /\ Indicate

\* handleSendPrivateMessage up to `await messageService.createMessage`.
SendPrivateMessage(s, recipientId, content) ==
    LET u == UserOf(s)
    IN /\ s \in Connected
       /\ IF recipientId = None \/ content = "" \/ Trim(content) = "" \/ recipientId = u
          THEN /\ out' = SocketEmit(s, "error", u, None)
               /\ pending' = pending
          ELSE /\ CanSuspend
               /\ CanStore
               /\ out' = <<>>
               /\ pending' = pending \cup {Task("send_private", s, None, recipientId)}
       /\ UNCHANGED <<live, db, clock, running, keys>>
       /\ Indicate

\* handleSendPrivateMessage after createMessage; `valid` is the outcome of the
\* collaborator's checks of content, type and reply target.
SendPrivateMessageResume(p, valid) ==
    LET s == p.s
        u == UserOf(s)
        v == p.peer
        online == MapHas(onlineUsers, v)
        sid == IF online THEN MapGet(onlineUsers, v).socketId ELSE 0
        conversationKey == getConversationKey(u, v)
        typing == conversationKey \in DOMAIN privateTyping
    IN /\ p \in pending
       /\ p.h = "send_private"
       /\ pending' = pending \ {p}
       /\ IF valid /\ ~hasBlocked(v, u) /\ ~hasBlocked(u, v)
          THEN /\ messages' = Append(messages, [sender |-> u, room |-> None, recipient |-> v])
               /\ privateTyping' = IF typing THEN FnDelete(privateTyping, conversationKey)
                                   ELSE privateTyping
               /\ out' = (IF online THEN IoToEmit(sid, "private_message_received", u) ELSE <<>>)
                            \o SocketEmit(s, "private_message_sent", u, None)
                            \o (IF typing /\ online THEN IoToEmit(sid, "typing_stop", u) ELSE <<>>)
          ELSE /\ out' = ErrorEmit(s, u, IF hasBlocked(v, u) \/ hasBlocked(u, v)
                                         THEN "Cannot send message to this user"
                                         ELSE "Failed to send private message")
               /\ UNCHANGED <<messages, privateTyping>>
       /\ UNCHANGED <<sockets, joined, onlineUsers, typingUsers, rooms, isOnline, clock, users, changes, running, keys>>
       /\ Indicate

\* ---------------------------------------------------------------- message changes
\* The continuation of a handler that names a message.
MsgTask(h, s, id, arg) ==
    [h |-> h, s |-> s, room |-> None, peer |-> None, id |-> id, arg |-> arg]

\* The message ids a client may name: the ids of stored messages and of
\* messages that do not exist (yet), or NoId when the payload has none.
NoId == 0
MessageIds == NoId..MaxMsgs

\* The emits of a change event for message m made by socket s: to the room of
\* a room message except s, or to the registered socket of the other
\* participant of a private message.
ChangeEmits(s, m, ev) ==
    LET u == UserOf(s)
        other == IF m.sender = u THEN m.recipient ELSE m.sender
    IN IF m.room = None
       THEN IF MapHas(onlineUsers, other)
            THEN IoToEmit(MapGet(onlineUsers, other).socketId, ev, u) ELSE <<>>
       ELSE SocketToEmit(joined, s, m.room, ev, u)

\* handleMessageEdit up to `await messageService.editMessage`.
EditMessage(s, id, content) ==
    LET u == UserOf(s)
    IN /\ s \in Connected
       /\ IF id = NoId \/ content = "" \/ Trim(content) = ""
          THEN /\ out' = SocketEmit(s, "error", u, None)
               /\ pending' = pending
          ELSE /\ CanSuspend
               /\ out' = <<>>
               /\ pending' = pending \cup {MsgTask("edit", s, id, None)}
       /\ UNCHANGED <<live, db, clock, running, keys>>
       /\ Indicate

\* message.canUserEdit(userId) apart from the age and type of the message.
canUserEdit(id, u) == messages[id].sender = u /\ id \notin changes.deleted

\* handleMessageEdit after editMessage; `valid` is the outcome of the checks of
\* the content length and of the age and type of the message.
EditMessageResume(p, valid) ==
    LET s == p.s
        u == UserOf(s)
        id == p.id
    IN /\ p \in pending
       /\ p.h = "edit"
       /\ pending' = pending \ {p}
       /\ IF valid /\ id \in DOMAIN messages /\ canUserEdit(id, u)
          THEN /\ changes' = [changes EXCEPT !.edited = @ \cup {id}]
               /\ out' = ChangeEmits(s, messages[id], "message_edited")
                            \o SocketEmit(s, "message_edit_confirmed", u, None)
          ELSE /\ changes' = changes
               /\ out' = SocketEmit(s, "error", u, None)
       /\ UNCHANGED <<live, rooms, isOnline, messages, users, clock, running, keys>>
       /\ Indicate

\* handleMessageDelete up to its first await.
DeleteMessage(s, id) ==
    LET u == UserOf(s)
    IN /\ s \in Connected
       /\ IF id = NoId
          THEN /\ out' = SocketEmit(s, "error", u, None)
               /\ pending' = pending
          ELSE /\ CanSuspend
               /\ out' = <<>>
               /\ pending' = pending \cup {MsgTask("delete", s, id, None)}
       /\ UNCHANGED <<live, db, clock, running, keys>>
       /\ Indicate

\* message.canUserDelete(userId, isAdmin)
canUserDelete(id, u, admin) == id \notin changes.deleted /\ (messages[id].sender = u \/ admin)

\* handleMessageDelete after its awaits.  `imported` is whether the dynamic
\* import of '../models/Message.js' resolves: the model file is named in
\* lower case where messageService imports it, so the import fails on a
\* case-sensitive file system and the catch reports it.
DeleteMessageResume(p, imported) ==
    LET s == p.s
        u == UserOf(s)
        id == p.id
        m == messages[id]
        admin == m.room # None /\ rooms[m.room].exists /\ isAdmin(m.room, u)
    IN /\ p \in pending
       /\ p.h = "delete"
       /\ pending' = pending \ {p}
       /\ IF imported /\ id \in DOMAIN messages /\ canUserDelete(id, u, admin)
          THEN /\ changes' = [changes EXCEPT !.deleted = @ \cup {id}]
               /\ out' = ChangeEmits(s, m, "message_deleted")
                            \o SocketEmit(s, "message_delete_confirmed", u, None)
          ELSE /\ changes' = changes
               /\ out' = SocketEmit(s, "error", u, None)
       /\ UNCHANGED <<live, rooms, isOnline, messages, users, clock, running, keys>>
       /\ Indicate

\* The reaction actions a client may name.
ReactionActions == {"toggle", "add", "remove", "other"}

\* handleMessageReaction up to its first await.
MessageReaction(s, id, action) ==
    LET u == UserOf(s)
    IN /\ s \in Connected
       /\ IF id = NoId \/ action = "other"
          THEN /\ out' = SocketEmit(s, "error", u, None)
               /\ pending' = pending
          ELSE /\ CanSuspend
               /\ out' = <<>>
               /\ pending' = pending \cup {MsgTask("reaction", s, id, action)}
       /\ UNCHANGED <<live, db, clock, running, keys>>
       /\ Indicate

\* The checks of messageService.addReaction / toggleReaction: the message is
\* not deleted and the user is a participant of the private conversation or a
\* member of the room.  removeReaction makes none of them.
canReact(id, u) ==
    LET m == messages[id]
    IN /\ id \notin changes.deleted
       /\ IF m.room = None THEN u \in {m.sender, m.recipient}
          ELSE rooms[m.room].exists /\ isMember(m.room, u)

\* The reactions after the user's action on the message.
React(rs, id, u, action) ==
    CASE action = "add" -> rs \cup {<<id, u>>}
      [] action = "remove" -> rs \ {<<id, u>>}
      [] OTHER -> IF <<id, u>> \in rs THEN rs \ {<<id, u>>} ELSE rs \cup {<<id, u>>}

\* handleMessageReaction after the service call: the reaction is saved, then
\* the handler imports the Message model to find the audience.
MessageReactionResume(p, imported) ==
    LET s == p.s
        u == UserOf(s)
        id == p.id
    IN /\ p \in pending
       /\ p.h = "reaction"
       /\ pending' = pending \ {p}
       /\ IF id \in DOMAIN messages /\ (p.arg = "remove" \/ canReact(id, u))
          THEN /\ changes' = [changes EXCEPT !.reactions = React(@, id, u, p.arg)]
               /\ out' = IF imported
                          THEN ChangeEmits(s, messages[id], "message_reaction")
                                   \o SocketEmit(s, "reaction_updated", u, None)
                          ELSE SocketEmit(s, "error", u, None)
          ELSE /\ changes' = changes
               /\ out' = SocketEmit(s, "error", u, None)
       /\ UNCHANGED <<live, rooms, isOnline, messages, users, clock, running, keys>>
       /\ Indicate

\* ---------------------------------------------------------------- blocking
\* authService.toggleUserBlock(userId, targetUserId, block) (HTTP).
toggleUserBlock(u, v, block) ==
    /\ running
    /\ u # v
    /\ users' = [users EXCEPT ![u].blockedUsers = IF block THEN @ \cup {v} ELSE @ \ {v}]
    /\ out' = <<>>
    /\ UNCHANGED <<live, rooms, isOnline, messages, changes, pending, clock, running, keys>>
    /\ Indicate

\* ---------------------------------------------------------------- status
\* The values a client may put in `status`.
Statuses == {"away", "busy"}

\* The update_status listener up to `await User.findByIdAndUpdate`; the
\* destructuring of a missing payload throws inside the try block.
UpdateStatus(s, hasData, status) ==
    LET u == UserOf(s)
    IN /\ s \in Connected
       /\ IF ~hasData
          THEN /\ out' = SocketEmit(s, "error", u, None)
               /\ pending' = pending
          ELSE /\ CanSuspend
               /\ out' = <<>>
               /\ pending' = pending \cup {MsgTask("status", s, NoId, status)}
       /\ UNCHANGED <<live, db, clock, running, keys>>
       /\ Indicate

\* The update_status listener after the user document is updated, up to
\* `await Room.find({ members: socket.userId })`.
UpdateStatusSaved(p) ==
    LET u == UserOf(p.s)
    IN /\ p \in pending
       /\ p.h = "status"
       /\ users' = [users EXCEPT ![u].status = p.arg]
       /\ pending' = (pending \ {p}) \cup {MsgTask("status2", p.s, NoId, p.arg)}
       /\ out' = <<>>
       /\ UNCHANGED <<live, rooms, isOnline, messages, changes, clock, running, keys>>
       /\ Indicate

\* Room.find({ members: userId }): every stored room that lists the user.
MemberRooms(u) == {r \in Rooms : rooms[r].exists /\ u \in rooms[r].members}

\* The update_status listener after Room.find: user_status_updated goes to
\* each of those rooms, then status_updated to the socket.
UpdateStatusBroadcast(p) ==
    LET s == p.s
        u == UserOf(s)
    IN /\ p \in pending
       /\ p.h = "status2"
       /\ pending' = pending \ {p}
       /\ out' = RoomEmits(joined, s, RoomSeq(MemberRooms(u)), "user_status_updated", u)
                    \o SocketEmit(s, "status_updated", u, None)
       /\ UNCHANGED <<live, db, clock, running, keys>>
       /\ Indicate

\* ---------------------------------------------------------------- calls
\* A listener without a try block destructures a missing payload: the
\* TypeError is uncaught and the process exits.  Its connections close and
\* its maps and suspended handlers are gone; the stored documents stay.
Crash ==
    /\ running' = FALSE
    /\ sockets' = [s \in SocketIds |->
                      IF sockets[s].status = "connected"
                      THEN [sockets[s] EXCEPT !.status = "closed"] ELSE sockets[s]]
    /\ joined' = [s \in SocketIds |-> {}]
    /\ onlineUsers' = {}
    /\ typingUsers' = <<>>
    /\ privateTyping' = <<>>
    /\ typedAt' = <<>>
    /\ pending' = {}
    /\ out' = <<>>
    /\ UNCHANGED <<db, now, lastSweep, keys>>
    /\ Indicate

\* io.to(the registered socket of user v).emit(ev), or `otherwise` without one.
EmitToUser(v, ev, u, otherwise) ==
    IF MapHas(onlineUsers, v) THEN IoToEmit(MapGet(onlineUsers, v).socketId, ev, u)
    ELSE otherwise

\* The call_initiate listener (synchronous).
CallInitiate(s, hasData, recipientId) ==
    /\ s \in Connected
    /\ IF ~hasData THEN Crash
       ELSE /\ out' = EmitToUser(recipientId, "call_incoming", UserOf(s),
                                 SocketEmit(s, "call_failed", UserOf(s), None))
            /\ UNCHANGED <<live, db, clock, pending, running, keys>>
            /\ Indicate

\* The call_answer listener (synchronous).
CallAnswer(s, hasData, callerId) ==
    /\ s \in Connected
    /\ IF ~hasData THEN Crash
       ELSE /\ out' = EmitToUser(callerId, "call_answered", UserOf(s), <<>>)
            /\ UNCHANGED <<live, db, clock, pending, running, keys>>
            /\ Indicate

\* The call_end listener (synchronous).
CallEnd(s, hasData, participantId) ==
    /\ s \in Connected
    /\ IF ~hasData THEN Crash
       ELSE /\ out' = EmitToUser(participantId, "call_ended", UserOf(s), <<>>)
            /\ UNCHANGED <<live, db, clock, pending, running, keys>>
            /\ Indicate

\* ---------------------------------------------------------------- typing
\* handleTypingStart (synchronous).
TypingStart(s, r, isPrivate, recipientId) ==
    LET u == UserOf(s)
        conversationKey == getConversationKey(u, recipientId)
        online == MapHas(onlineUsers, recipientId)
        sid == IF online THEN MapGet(onlineUsers, recipientId).socketId ELSE 0
    IN /\ s \in Connected
       /\ IF isPrivate /\ recipientId # None
          THEN /\ privateTyping' = FnSet(privateTyping, conversationKey,
                                         [userId |-> u, startTime |-> now])
               /\ typingUsers' = typingUsers
               /\ typedAt' = typedAt
               /\ out' = IF online THEN IoToEmit(sid, "typing_start", u) ELSE <<>>
          ELSE IF r # None
          THEN /\ typingUsers' = FnSet(typingUsers, r,
                                       (IF r \in DOMAIN typingUsers THEN typingUsers[r] ELSE {})
                                           \cup {u})
               /\ privateTyping' = privateTyping
               /\ typedAt' = FnSet(typedAt, <<r, u>>, now)
               /\ out' = SocketToEmit(joined, s, r, "typing_start", u)
          ELSE /\ out' = <<>>
               /\ UNCHANGED <<typingUsers, privateTyping, typedAt>>
       /\ UNCHANGED <<sockets, joined, onlineUsers, db, pending, now, lastSweep, running, keys>>
       /\ Indicate

\* handleTypingStop (synchronous).
TypingStop(s, r, isPrivate, recipientId) ==
    LET u == UserOf(s)
        conversationKey == getConversationKey(u, recipientId)
        online == MapHas(onlineUsers, recipientId)
        sid == IF online THEN MapGet(onlineUsers, recipientId).socketId ELSE 0
        rest == typingUsers[r] \ {u}
    IN /\ s \in Connected
       /\ IF isPrivate /\ recipientId # None
          THEN /\ privateTyping' = FnDelete(privateTyping, conversationKey)
               /\ typingUsers' = typingUsers
               /\ out' = IF online THEN IoToEmit(sid, "typing_stop", u) ELSE <<>>
          ELSE IF r # None /\ r \in DOMAIN typingUsers
          THEN /\ typingUsers' = IF rest = {} THEN FnDelete(typingUsers, r)
                                 ELSE FnSet(typingUsers, r, rest)
               /\ privateTyping' = privateTyping
               /\ out' = SocketToEmit(joined, s, r, "typing_stop", u)
          ELSE /\ out' = <<>>
               /\ UNCHANGED <<typingUsers, privateTyping>>
       /\ typedAt' = KeepSessions(typedAt, typingUsers')
       /\ UNCHANGED <<sockets, joined, onlineUsers, db, pending, now, lastSweep, running, keys>>
       /\ Indicate

\* ---------------------------------------------------------------- timer
\* The interval timer is due.
SweepDue == now - lastSweep >= CleanupInterval

\* Time passes; the sweep runs as soon as it is due.
Tick ==
    /\ ~SweepDue
    /\ now < MaxTicks * TickMs
    /\ now' = now + TickMs
    /\ out' = <<>>
    /\ UNCHANGED <<live, db, pending, lastSweep, typedAt, running, keys>>
    /\ Indicate

\* A sweep that takes every session for expired.
ExpiredAlways(startTime, t) == TRUE

\* now - typingData.startTime > TYPING_TIMEOUT
Expired(startTime, t) == t - startTime > TYPING_TIMEOUT

\* cleanupTypingIndicators, run by setInterval: empty room sets are dropped
\* from typingUsers and private sessions older than the timeout are deleted.
cleanupTypingIndicators ==
    /\ running
    /\ SweepDue
    /\ lastSweep' = now
    /\ typingUsers' = [r \in {x \in DOMAIN typingUsers : typingUsers[x] # {}} |-> typingUsers[r]]
    /\ privateTyping' =
          [k \in {x \in DOMAIN privateTyping : ~Expired(privateTyping[x].startTime, now)}
              |-> privateTyping[k]]
    /\ out' = <<>>
    /\ UNCHANGED <<sockets, joined, onlineUsers, db, pending, now, typedAt, running, keys>>
    /\ Indicate

\* ---------------------------------------------------------------- persisted membership
NoRoom == [exists |-> FALSE, isActive |-> FALSE, members |-> {}, messageCount |-> 0]

\* room.canUserJoin(userId) for a room with the default settings.
canUserJoin(r, u) == rooms[r].isActive /\ ~isMember(r, u)

\* roomService.joinRoom (HTTP): the user becomes a persisted member.
ServiceJoinRoom(r, u) ==
    /\ running
    /\ rooms[r].exists
    /\ rooms[r].isActive
    /\ canUserJoin(r, u)
    /\ rooms' = [rooms EXCEPT ![r].members = @ \cup {u}]
    /\ out' = <<>>
    /\ UNCHANGED <<live, isOnline, messages, pending, clock, users, changes, running, keys>>
    /\ Indicate

\* roomService.leaveRoom (HTTP): an emptied room is deactivated.
ServiceLeaveRoom(r, u) ==
    /\ running
    /\ rooms[r].exists
    /\ isMember(r, u)
    /\ ~(isCreator(r, u) /\ Cardinality(rooms[r].members) > 1)
    /\ rooms' = [rooms EXCEPT ![r].members = @ \ {u},
                              ![r].isActive = IF rooms[r].members \ {u} = {} THEN FALSE ELSE @]
    /\ out' = <<>>
    /\ UNCHANGED <<live, isOnline, messages, pending, clock, users, changes, running, keys>>
    /\ Indicate

\* roomService.removeUserFromRoom (HTTP): an admin removes a member.
removeUserFromRoom(r, targetUserId, adminUserId) ==
    /\ running
    /\ rooms[r].exists
    /\ isAdmin(r, adminUserId)
    /\ isMember(r, targetUserId)
    /\ ~isCreator(r, targetUserId)
    /\ rooms' = [rooms EXCEPT ![r].members = @ \ {targetUserId}]
    /\ out' = <<>>
    /\ UNCHANGED <<live, isOnline, messages, pending, clock, users, changes, running, keys>>
    /\ Indicate

\* roomService.deleteRoom (HTTP): the creator deletes the room document.
deleteRoom(r, u) ==
    /\ running
    /\ rooms[r].exists
    /\ isCreator(r, u)
    /\ rooms' = [rooms EXCEPT ![r] = NoRoom]
    /\ out' = <<>>
    /\ UNCHANGED <<live, isOnline, messages, pending, clock, users, changes, running, keys>>
    /\ Indicate

\* ---------------------------------------------------------------- specification
\* io.use(authenticateSocket), then the connection event.
Handshake(s, token) ==
    IF authenticateSocket(token) = None THEN Reject(s, token)
    ELSE Connect(s, authenticateSocket(token), token)

OpenStep ==
    \/ \E s \in SocketIds, token \in Tokens : Handshake(s, token)
    \/ \E p \in pending : ConnectSetOnline(p)
    \/ \E p \in pending : ConnectJoinRooms(p)

CloseStep ==
    \/ \E s \in SocketIds : Disconnect(s)
    \/ \E p \in pending : DisconnectFinish(p)

ConnectionStep == OpenStep \/ CloseStep

JoinStep ==
    \/ \E s \in SocketIds, r \in Rooms \cup {None} : JoinRoom(s, r)
    \/ \E p \in pending : JoinRoomResume(p)
    \/ \E p \in pending : JoinRoomMessages(p)

LeaveStep ==
    \/ \E s \in SocketIds, r \in Rooms \cup {None} : LeaveRoom(s, r)
    \/ \E p \in pending : LeaveRoomResume(p)

RoomStep == JoinStep \/ LeaveStep

RoomMessageStep ==
    \/ \E s \in SocketIds, r \in Rooms \cup {None}, c \in Contents : SendMessage(s, r, c)
    \/ \E p \in pending, valid \in BOOLEAN, replyOk \in BOOLEAN : SendMessageResume(p, valid, replyOk)

PrivateMessageStep ==
    \/ \E s \in SocketIds, v \in Users \cup {None}, c \in Contents : SendPrivateMessage(s, v, c)
    \/ \E p \in pending, valid \in BOOLEAN : SendPrivateMessageResume(p, valid)

MessageStep == RoomMessageStep \/ PrivateMessageStep

ChangeStep ==
    \/ \E s \in SocketIds, id \in MessageIds, c \in Contents : EditMessage(s, id, c)
    \/ \E p \in pending, valid \in BOOLEAN : EditMessageResume(p, valid)
    \/ \E s \in SocketIds, id \in MessageIds : DeleteMessage(s, id)
    \/ \E p \in pending, imported \in BOOLEAN : DeleteMessageResume(p, imported)
    \/ \E s \in SocketIds, id \in MessageIds, a \in ReactionActions :
          MessageReaction(s, id, a)
    \/ \E p \in pending, imported \in BOOLEAN : MessageReactionResume(p, imported)

BlockStep == \E u \in Users, v \in Users, block \in BOOLEAN : toggleUserBlock(u, v, block)

StatusStep ==
    \/ \E s \in SocketIds, hasData \in BOOLEAN, st \in Statuses : UpdateStatus(s, hasData, st)
    \/ \E p \in pending : UpdateStatusSaved(p)
    \/ \E p \in pending : UpdateStatusBroadcast(p)

\* recipientId, callerId and participantId are a user id or missing.
CallStep ==
    \/ \E s \in SocketIds, hasData \in BOOLEAN, v \in Users \cup {None} : CallInitiate(s, hasData, v)
    \/ \E s \in SocketIds, hasData \in BOOLEAN, v \in Users \cup {None} : CallAnswer(s, hasData, v)
    \/ \E s \in SocketIds, hasData \in BOOLEAN, v \in Users \cup {None} : CallEnd(s, hasData, v)

\* The payloads of typing_start / typing_stop: a room, a private peer other
\* than the typist, or neither.
TypingData(s) ==
    {[roomId |-> r, isPrivate |-> FALSE, recipientId |-> None] : r \in Rooms \cup {None}}
        \cup {[roomId |-> None, isPrivate |-> TRUE, recipientId |-> v] : v \in Users \ {UserOf(s)}}

\* typing_start / typing_stop for a room (or with an empty payload).
RoomTypingStep ==
    \/ \E s \in SocketIds : \E d \in {x \in TypingData(s) : ~x.isPrivate} :
          TypingStart(s, d.roomId, d.isPrivate, d.recipientId)
    \/ \E s \in SocketIds : \E d \in {x \in TypingData(s) : ~x.isPrivate} :
          TypingStop(s, d.roomId, d.isPrivate, d.recipientId)

\* typing_start / typing_stop for a private conversation.
PrivateTypingStep ==
    \/ \E s \in SocketIds : \E d \in {x \in TypingData(s) : x.isPrivate} :
          TypingStart(s, d.roomId, d.isPrivate, d.recipientId)
    \/ \E s \in SocketIds : \E d \in {x \in TypingData(s) : x.isPrivate} :
          TypingStop(s, d.roomId, d.isPrivate, d.recipientId)

TypingStep == RoomTypingStep \/ PrivateTypingStep

ServiceStep ==
    \/ \E r \in Rooms, u \in Users : ServiceJoinRoom(r, u)
    \/ \E r \in Rooms, u \in Users : ServiceLeaveRoom(r, u)
    \/ \E r \in Rooms, t \in Users, a \in Users : removeUserFromRoom(r, t, a)
    \/ \E r \in Rooms, u \in Users : deleteRoom(r, u)

TimerStep == Tick \/ cleanupTypingIndicators

\* The whole gateway with the HTTP room service beside it.
Next ==
    ConnectionStep \/ RoomStep \/ MessageStep \/ ChangeStep \/ TypingStep \/ StatusStep
        \/ CallStep \/ ServiceStep \/ BlockStep \/ TimerStep
Spec == Init /\ [][Next]_vars

\* The gateway with clients that connect, disconnect, leave rooms and type.
NextTyping == ConnectionStep \/ LeaveStep \/ TypingStep
SpecTyping == Init /\ [][NextTyping]_vars

\* The gateway with the clock and private typing: clients connect and type to
\* each other while time passes and the interval timer sweeps the typing maps.
NextPrivateClock == OpenStep \/ PrivateTypingStep \/ TimerStep
SpecPrivateClock == Init /\ [][NextPrivateClock]_vars

\* The gateway with the clock and room typing.
NextRoomClock == OpenStep \/ RoomTypingStep \/ TimerStep
SpecRoomClock == Init /\ [][NextRoomClock]_vars

\* The gateway with clients that connect, join rooms, type in rooms and send.
NextRoomChat == OpenStep \/ JoinStep \/ RoomMessageStep \/ RoomTypingStep
SpecRoomChat == Init /\ [][NextRoomChat]_vars

\* The gateway with clients that connect, type to each other and send.
NextPrivateChat == OpenStep \/ MessageStep \/ PrivateTypingStep
SpecPrivateChat == Init /\ [][NextPrivateChat]_vars

\* The gateway with clients that connect, send, and edit, delete and react to
\* messages.
NextChanges == OpenStep \/ MessageStep \/ ChangeStep
SpecChanges == Init /\ [][NextChanges]_vars

\* The gateway with clients that connect and send while users block and
\* unblock each other.
NextBlocking == OpenStep \/ MessageStep \/ BlockStep
SpecBlocking == Init /\ [][NextBlocking]_vars

\* The gateway with the room service changing the persisted membership.
\* The gateway with clients that connect, send room messages and make calls.
NextCalls == OpenStep \/ MessageStep \/ CallStep
SpecCalls == Init /\ [][NextCalls]_vars

\* The gateway with clients that connect, join and leave rooms and update
\* their status.
NextStatus == OpenStep \/ RoomStep \/ StatusStep
SpecStatus == Init /\ [][NextStatus]_vars

\* The gateway of SpecTyping with the clients' typing indicators recorded.
InitIndicators == Start /\ keys = NoKeys /\ indicators = [on |-> TRUE, set |-> {}]
SpecIndicators == InitIndicators /\ [][NextTyping]_vars

NextRooms == ConnectionStep \/ RoomStep \/ ServiceStep
SpecRooms == Init /\ [][NextRooms]_vars

\* The gateway with clients that connect, join, leave and send messages.
NextMessages == ConnectionStep \/ RoomStep \/ MessageStep
SpecMessages == Init /\ [][NextMessages]_vars
\* ---------------------------------------------------------------- claims
\* The sockets of user u that are open.
LiveSockets(u) == {s \in Connected : UserOf(s) = u}
\* The users with an open socket in room r.
LiveMembers(r) == {UserOf(s) : s \in InRoom(joined, r)}
\* The emits of sequence o with event ev addressed to a socket of `targets`.
Emits(o, ev, targets) == {i \in DOMAIN o : o[i].ev = ev /\ o[i].to \in targets}
\* The sockets that ever connected as user u.
SocketsOf(u) == {s \in SocketIds : sockets[s].status # "new" /\ sockets[s].userId = u}

\* The socket of user u that connected last (socket ids are handed out in
\* connection order).
LatestSocket(u) == CHOOSE s \in SocketsOf(u) : \A t \in SocketsOf(u) : t <= s

\* C1: the registry holds at most one entry per user; an entry names the most
\* recently connected socket of its user and that socket is open; and a user
\* whose most recently connected socket is open has an entry.
C1_SingleConnection ==
    /\ \A e1, e2 \in onlineUsers : e1.userId = e2.userId => e1 = e2
    /\ \A e \in onlineUsers :
          /\ e.socketId \in LiveSockets(e.userId)
          /\ e.socketId = LatestSocket(e.userId)
    /\ \A u \in Users :
          (SocketsOf(u) # {} /\ LatestSocket(u) \in Connected) => MapHas(onlineUsers, u)

\* A user has two open sockets and the entry names the later one.
C1_Witness ==
    \E e \in onlineUsers : \E s \in LiveSockets(e.userId) : s < e.socketId
\* A socket is superseded once a later socket has connected for its user; it
\* is quiet when none of its own handlers is still suspended.
Superseded(s) ==
    /\ s \in Connected
    /\ \E t \in SocketsOf(UserOf(s)) : t > s
QuietSuperseded(s) == Superseded(s) /\ \A p \in pending : p.s # s

\* C2: once a newer socket of the same user has been registered, the older
\* socket is evicted: no step emits anything to it and no handler is started
\* for an event arriving on it (other than its disconnect).
C2_SupersededIsEvicted ==
    [][\A s \in SocketIds :
          QuietSuperseded(s) =>
              /\ \A i \in DOMAIN out' : out'[i].to # s
              /\ \A p \in pending' \ pending : p.s # s \/ p.h = "disconnect"]_vars

\* A room send of task p completes successfully in this step.
RoomSendDone(p) ==
    /\ p \in pending
    /\ p.h = "send"
    /\ p \notin pending'
    /\ Len(messages') = Len(messages) + 1

\* C3: whenever a send_message by user U to room R succeeds, every other live
\* member of R gets exactly one message_received, and U gets exactly one
\* message_sent and no message_received.
C3_FanOutExclusion ==
    [][\A p \in pending :
          RoomSendDone(p) =>
              LET u == UserOf(p.s)
              IN /\ \A v \in LiveMembers(p.room) \ {u} :
                       Cardinality(Emits(out', "message_received", SocketsOf(v))) = 1
                 /\ Cardinality(Emits(out', "message_sent", SocketsOf(u))) = 1
                 /\ Emits(out', "message_received", SocketsOf(u)) = {}]_vars

\* A private send of task p completes successfully in this step.
PrivateSendDone(p) ==
    /\ p \in pending
    /\ p.h = "send_private"
    /\ p \notin pending'
    /\ Len(messages') = Len(messages) + 1

\* C4: whenever a send_private_message from S to V succeeds, the message is
\* stored, exactly one private_message_sent is emitted and it goes to the
\* sending socket; private_message_received is emitted at most once, only when
\* V has a registry entry and only to the socket that entry names; when V has
\* no entry nothing at all is emitted to a socket of V.
C4_PrivateDeliveryGating ==
    [][\A p \in pending :
          PrivateSendDone(p) =>
              LET u == UserOf(p.s)
                  v == p.peer
                  acks == Emits(out', "private_message_sent", SocketIds)
                  recv == Emits(out', "private_message_received", SocketIds)
              IN /\ messages' = Append(messages, [sender |-> u, room |-> None, recipient |-> v])
                 /\ Cardinality(acks) = 1
                 /\ \A i \in acks : out'[i].to = p.s
                 /\ Cardinality(recv) <= 1
                 /\ \A i \in recv :
                       /\ MapHas(onlineUsers, v)
                       /\ out'[i].to = MapGet(onlineUsers, v).socketId
                 /\ MapHas(onlineUsers, v) => Cardinality(recv) = 1
                 /\ ~MapHas(onlineUsers, v) =>
                       \A i \in DOMAIN out' : out'[i].to \notin SocketsOf(v)]_vars

\* A private message was just stored and acknowledged while its recipient has
\* no registry entry and got nothing.
C4_Witness ==
    /\ messages # <<>>
    /\ messages[Len(messages)].recipient # None
    /\ ~MapHas(onlineUsers, messages[Len(messages)].recipient)
    /\ Emits(out, "private_message_sent", SocketIds) # {}
    /\ Emits(out, "private_message_received", SocketIds) = {}
\* C5: in every state, every user with an open socket in room R is a
\* persisted member of R.
C5_LiveSubsetOfPersisted ==
    \A r \in Rooms : LiveMembers(r) \subseteq rooms[r].members

\* The join_room of task p is answered in this step.
JoinAnswered(p) ==
    /\ p \in pending
    /\ p.h = "join"
    /\ p \notin pending'

\* C6: a join_room for a room that is missing or inactive, or of which the
\* requester is not a persisted member, only sends an error to the requester:
\* no socket joins, the registry is unchanged, nothing else is emitted.
C6_JoinNeedsMembership ==
    [][\A p \in pending :
          (/\ JoinAnswered(p)
           /\ ~(/\ rooms[p.room].exists
                /\ rooms[p.room].isActive
                /\ isMember(p.room, UserOf(p.s)))) =>
              /\ joined' = joined
              /\ onlineUsers' = onlineUsers
              /\ \A i \in DOMAIN out' : out'[i].ev = "error" /\ out'[i].to = p.s]_vars

\* The send_message of task p is answered in this step.
RoomSendAnswered(p) ==
    /\ p \in pending
    /\ p.h = "send"
    /\ p \notin pending'

\* C7: a send_message from a socket that is not in the room is answered with
\* an error only: no message is stored and no message_received is emitted.
C7_SendNeedsLiveMembership ==
    [][\A p \in pending :
          (RoomSendAnswered(p) /\ p.s \notin InRoom(joined, p.room)) =>
              /\ messages' = messages
              /\ Emits(out', "message_received", SocketIds) = {}
              /\ Emits(out', "error", {p.s}) # {}]_vars

\* Socket s closes in this step.
Closes(s) == sockets[s].status = "connected" /\ sockets'[s].status = "closed"
\* Socket s is the one the registry holds for its user.
Registered(s) ==
    /\ MapHas(onlineUsers, UserOf(s))
    /\ MapGet(onlineUsers, UserOf(s)).socketId = s

\* C8: right after the registered socket of user U disconnects, U has no
\* registry entry, U is a live member of no room, and no typing session of U
\* is left in either typing map.
C8_DisconnectCleanup ==
    [][\A s \in SocketIds :
          (Closes(s) /\ Registered(s)) =>
              LET u == UserOf(s)
              IN /\ ~MapHas(onlineUsers', u)
                 /\ \A r \in Rooms : \A t \in SocketIds :
                       (sockets'[t].status = "connected" /\ r \in joined'[t])
                           => sockets'[t].userId # u
                 /\ \A r \in DOMAIN typingUsers' : u \notin typingUsers'[r]
                 /\ \A k \in DOMAIN privateTyping' : privateTyping'[k].userId # u]_vars

\* The disconnect handler of task p finishes in this step.
DisconnectAnnounced(p) ==
    /\ p \in pending
    /\ p.h = "disconnect"
    /\ p \notin pending'

\* C9: when the disconnect handler of a socket finishes while the registry
\* holds another socket for the same user, it emits no user_offline.
C9_StaleDisconnectSilent ==
    [][\A p \in pending :
          (/\ DisconnectAnnounced(p)
           /\ MapHas(onlineUsers, UserOf(p.s))
           /\ MapGet(onlineUsers, UserOf(p.s)).socketId # p.s) =>
              Emits(out', "user_offline", SocketIds) = {}]_vars

\* C10: the disconnect of a socket that is not the registered one of its user
\* changes neither the registry nor any typing session.
C10_StaleUnregisterNoOp ==
    [][\A s \in SocketIds :
          (Closes(s) /\ ~Registered(s)) =>
              /\ onlineUsers' = onlineUsers
              /\ typingUsers' = typingUsers
              /\ privateTyping' = privateTyping]_vars

\* C11: when the disconnect handler of a socket that was the registered one of
\* user U finishes, a user_offline carrying room R is emitted to every open
\* socket of another user in R, for every room R the socket was in when it
\* closed.
C11_RoomScopedOffline ==
    [][\A p \in pending :
          (DisconnectAnnounced(p) /\ p.registered) =>
              \A r \in p.had : \A t \in InRoom(joined, r) :
                  UserOf(t) # UserOf(p.s) =>
                      \E i \in DOMAIN out' :
                          /\ out'[i].ev = "user_offline"
                          /\ out'[i].to = t
                          /\ out'[i].room = r]_vars

\* C12: when the disconnect handler of a socket of user U1 finishes, every
\* open socket of another user U2 in a room R the socket was in when it closed
\* gets a user_offline and a user_left carrying R.
C12_DisconnectLeavesRooms ==
    [][\A p \in pending :
          DisconnectAnnounced(p) =>
              \A r \in p.had : \A t \in InRoom(joined, r) :
                  UserOf(t) # UserOf(p.s) =>
                      /\ Emits(out', "user_offline", {t}) # {}
                      /\ \E i \in Emits(out', "user_left", {t}) : out'[i].room = r]_vars

\* The Map privateTyping loses key k in this step of the interval timer.
SweepRemoves(k) ==
    /\ lastSweep' # lastSweep
    /\ k \in DOMAIN privateTyping
    /\ k \notin DOMAIN privateTyping'

\* The participant of private session k other than its typist.
OtherParticipant(k) ==
    CHOOSE v \in Users : v # privateTyping[k].userId
                            /\ getConversationKey(privateTyping[k].userId, v) = k

\* C13: no private typing session stays in the map longer than the timeout
\* plus one sweep interval after it started, and the sweep that removes a
\* session emits exactly one typing_stop naming its typist, addressed to the
\* registered socket of the other participant when that participant has one.
C13_PrivateTypingExpiry ==
    [][/\ \A k \in DOMAIN privateTyping' :
             now' - privateTyping'[k].startTime <= TYPING_TIMEOUT + CleanupInterval
       /\ \A k \in DOMAIN privateTyping :
             (SweepRemoves(k) /\ MapHas(onlineUsers, OtherParticipant(k))) =>
                 LET stops == {i \in DOMAIN out' : /\ out'[i].ev = "typing_stop"
                                                   /\ out'[i].user = privateTyping[k].userId}
                 IN /\ Cardinality(stops) = 1
                    /\ \A i \in stops :
                          out'[i].to = MapGet(onlineUsers, OtherParticipant(k)).socketId]_vars

\* getTypingUsers(roomId): the users the gateway reports as typing in the room.
getTypingUsers(r) == IF r \in DOMAIN typingUsers THEN typingUsers[r] ELSE {}

\* C14: in every state, every user reported as typing in a room sent the last
\* typing_start there no longer ago than the timeout, and no private typing
\* session in the map is older than the timeout.
C14_TypingNeverOutlivesTimeout ==
    /\ \A r \in Rooms : \A u \in getTypingUsers(r) :
          now - typedAt[<<r, u>>] <= TYPING_TIMEOUT
    /\ \A k \in DOMAIN privateTyping :
          now - privateTyping[k].startTime <= TYPING_TIMEOUT

\* The leave_room of task p is answered in this step.
LeaveAnswered(p) ==
    /\ p \in pending
    /\ p.h = "leave"
    /\ p \notin pending'

\* The state a completed leave_room{r} of socket s leaves behind: the socket is
\* not in the room, the registry entry of its user does not list the room and
\* the user has no typing session in it.
AlreadyLeft(s, r) ==
    /\ r \notin joined[s]
    /\ MapHas(onlineUsers, UserOf(s)) => r \notin MapGet(onlineUsers, UserOf(s)).rooms
    /\ UserOf(s) \notin getTypingUsers(r)

\* C15: a leave_room{R} answered for an open socket that has already left R
\* changes no membership, registry or typing state and emits nothing to a
\* socket of another user.
C15_IdempotentLeave ==
    [][\A p \in pending :
          (LeaveAnswered(p) /\ p.s \in Connected /\ AlreadyLeft(p.s, p.room)) =>
              /\ joined' = joined
              /\ onlineUsers' = onlineUsers
              /\ typingUsers' = typingUsers
              /\ \A i \in DOMAIN out' : UserOf(out'[i].to) = UserOf(p.s)]_vars

\* This step handles a typing event: the only steps that leave the sockets,
\* the suspended handlers and the timer as they are.
TypingHandled ==
    /\ pending' = pending
    /\ sockets' = sockets
    /\ lastSweep' = lastSweep
    /\ now' = now

\* User u is the typist of a session in the scope emit e names: room e.room,
\* or the private conversation with the user the emit is addressed to.
HasSession(u, e) ==
    IF e.room # None THEN u \in getTypingUsers(e.room)
    ELSE LET k == getConversationKey(u, UserOf(e.to))
         IN k \in DOMAIN privateTyping /\ privateTyping[k].userId = u

\* C16: a typing event emits typing_stop for user U only in a scope where U
\* had a typing session, and a typing_stop of U removes no private session
\* whose typist is another user.
C16_IdempotentStop ==
    [][TypingHandled =>
          \A i \in DOMAIN out' :
              out'[i].ev = "typing_stop" =>
                  /\ HasSession(out'[i].user, out'[i])
                  /\ \A k \in (DOMAIN privateTyping) \ DOMAIN privateTyping' :
                        privateTyping[k].userId = out'[i].user]_vars

\* The typing_stop emits of sequence o that name user u and room r and are
\* addressed to socket t.
RoomStops(o, u, r, t) ==
    {i \in DOMAIN o : /\ o[i].ev = "typing_stop"
                      /\ o[i].user = u
                      /\ o[i].room = r
                      /\ o[i].to = t}

\* C17: when a send_message by user U to room R succeeds, U has no typing
\* session in R afterwards; every open socket of another user in R gets one
\* typing_stop naming U and R if U had a typing session in R, and none
\* otherwise; without a session no typing_stop is emitted at all.
C17_ImplicitStopOnRoomSend ==
    [][\A p \in pending :
          RoomSendDone(p) =>
              LET u == UserOf(p.s)
                  r == p.room
                  typing == u \in getTypingUsers(r)
              IN /\ r \in DOMAIN typingUsers' => u \notin typingUsers'[r]
                 /\ \A t \in InRoom(joined, r) :
                       UserOf(t) # u =>
                           Cardinality(RoomStops(out', u, r, t)) = (IF typing THEN 1 ELSE 0)
                 /\ ~typing => Emits(out', "typing_stop", SocketIds) = {}]_vars

\* A send was just acknowledged and the socket of another user got the
\* typing_stop of the sender, whose session is gone.
C17_Witness ==
    \E i, j \in DOMAIN out :
        /\ out[i].ev = "message_sent"
        /\ out[j].ev = "typing_stop"
        /\ out[j].user = UserOf(out[i].to)
        /\ UserOf(out[j].to) # out[j].user
        /\ out[j].user \notin getTypingUsers(out[j].room)

\* User u is the typist of the private session stored under key k in Map m.
TypistOf(m, k, u) == k \in DOMAIN m /\ m[k].userId = u

\* C18: when a send_private_message from A to B succeeds, A is not the typist
\* of a session of the conversation afterwards; a typing_stop naming A is
\* emitted to a socket of B only if A was the typist of such a session; and a
\* session of the conversation whose typist is B is still in the map, as it was.
C18_ImplicitStopOnPrivateSend ==
    [][\A p \in pending :
          PrivateSendDone(p) =>
              LET a == UserOf(p.s)
                  b == p.peer
                  k == getConversationKey(a, b)
              IN /\ ~TypistOf(privateTyping', k, a)
                 /\ (\E i \in Emits(out', "typing_stop", SocketsOf(b)) : out'[i].user = a)
                       => TypistOf(privateTyping, k, a)
                 /\ TypistOf(privateTyping, k, b) =>
                       (k \in DOMAIN privateTyping' /\ privateTyping'[k] = privateTyping[k])]_vars

\* The handler of task p finishes in this step with an error to its socket.
FailsWith(p, hs) ==
    /\ p \in pending
    /\ p.h \in hs
    /\ p \notin pending'
    /\ Emits(out', "error", {p.s}) # {}

\* C19: a join_room that ends with an error ends before any of its effects:
\* it fails at its first stage, with the socket.io rooms and the registry as
\* they were and nothing emitted but the error; a send_message that ends with
\* an error has stored no message and emitted no message_received.
C19_NoPartialFanOut ==
    [][\A p \in pending :
          /\ FailsWith(p, {"join", "join2"}) =>
                /\ p.h = "join"
                /\ joined' = joined
                /\ onlineUsers' = onlineUsers
                /\ \A i \in DOMAIN out' : out'[i].ev = "error"
          /\ FailsWith(p, {"send"}) =>
                /\ messages' = messages
                /\ \A i \in DOMAIN out' : out'[i].ev = "error"]_vars

\* The acknowledgment that ends each handler successfully.
AckOf(h) ==
    CASE h \in {"join", "join2"} -> "room_joined"
      [] h = "leave" -> "room_left"
      [] h = "send" -> "message_sent"
      [] h = "send_private" -> "private_message_sent"
      [] OTHER -> None

\* C20: no step emits more than one error, an error goes to the socket whose
\* handler finishes in that step, and a handler that has sent its
\* acknowledgment emits no error afterwards: it neither finishes a step that
\* carries both, nor fails at a stage that follows the acknowledgment.
C20_OneErrorToActor ==
    [][/\ Cardinality(Emits(out', "error", SocketIds)) <= 1
       /\ \A p \in pending :
             (p \notin pending' /\ AckOf(p.h) # None) =>
                 /\ \A i \in Emits(out', "error", SocketIds) : out'[i].to = p.s
                 /\ ~(/\ Emits(out', "error", {p.s}) # {}
                      /\ Emits(out', AckOf(p.h), {p.s}) # {})
                 /\ p.h = "join2" => Emits(out', "error", {p.s}) = {}]_vars

\* The request of task p is invalid or its actor is not authorized: a send
\* or an edit that the collaborator rejects, a delete by a user who may not
\* delete the message, a reaction by a user who may not react to it.
Refused(p) ==
    CASE p.h \in {"send", "send_private", "edit"} -> Emits(out', "error", {p.s}) # {}
      [] p.h = "delete" ->
            ~(p.id \in DOMAIN messages
              /\ canUserDelete(p.id, UserOf(p.s),
                               /\ messages[p.id].room # None
                               /\ rooms[messages[p.id].room].exists
                               /\ isAdmin(messages[p.id].room, UserOf(p.s))))
      [] p.h = "reaction" -> ~(p.id \in DOMAIN messages /\ canReact(p.id, UserOf(p.s)))
      [] OTHER -> FALSE

\* C21: when the handler of a send, edit, delete or reaction finishes for a
\* request that is invalid or whose actor is not authorized, no persisted
\* room, message or user state has changed in that step.
C21_FailuresNeverPersist ==
    [][\A p \in pending : (p \notin pending' /\ Refused(p)) => UNCHANGED db]_vars

\* User a has user b in the blockedUsers of the persisted document.
Blocked(a, b) == b \in users[a].blockedUsers

ChangeOf(h) ==
    CASE h = "edit" -> "message_edited"
      [] h = "delete" -> "message_deleted"
      [] OTHER -> "message_reaction"

ChangeAckOf(h) ==
    CASE h = "edit" -> "message_edit_confirmed"
      [] h = "delete" -> "message_delete_confirmed"
      [] OTHER -> "reaction_updated"

\* The edit, delete or reaction of task p completes successfully in this step.
ChangeDone(p) ==
    /\ p \in pending
    /\ p.h \in {"edit", "delete", "reaction"}
    /\ p \notin pending'
    /\ Emits(out', ChangeAckOf(p.h), SocketIds) # {}

\* The sockets a send in the scope of message m by user u reaches.
SendAudience(m, u) ==
    IF m.room = None
    THEN LET other == IF m.sender = u THEN m.recipient ELSE m.sender
         IN IF MapHas(onlineUsers, other)
            THEN Connected \cap {MapGet(onlineUsers, other).socketId} ELSE {}
    ELSE UNION {SocketsOf(v) : v \in LiveMembers(m.room) \ {u}}

\* C23: whenever an edit_message, delete_message or message_reaction by user X
\* succeeds, the change event reaches exactly the sockets a send in the scope
\* of the message would reach, once each; X gets exactly one acknowledgment
\* and no change event.
C23_ChangeFanOut ==
    [][\A p \in pending :
          ChangeDone(p) =>
              LET u == UserOf(p.s)
                  m == messages[p.id]
                  ev == ChangeOf(p.h)
              IN /\ \A s \in SendAudience(m, u) : Cardinality(Emits(out', ev, {s})) = 1
                 /\ \A i \in Emits(out', ev, SocketIds) : out'[i].to \in SendAudience(m, u)
                 /\ Cardinality(Emits(out', ChangeAckOf(p.h), SocketsOf(u))) = 1
                 /\ Emits(out', ev, SocketsOf(u)) = {}]_vars

\* C24: no inbound event of a connection terminates the gateway: it is always
\* running, so the events of the other connections are still handled.
C24_GatewayKeepsRunning == running

\* C28: when the update_status of a socket is broadcast, user_status_updated
\* goes only to rooms that socket is joined to at that moment.
C28_StatusOnlyToLiveRooms ==
    [][\A p \in pending :
          (p.h = "status2" /\ p \notin pending') =>
              \A i \in Emits(out', "user_status_updated", SocketIds) :
                  out'[i].room \in joined[p.s]]_vars

\* The suspended handlers of inbound events (not of the connection itself).
EventHandlers == {"join", "join2", "leave", "send", "send_private"}

\* C25: when the handling of an event of a socket completes within a single
\* step and emits its answer, no handler of an earlier event of that socket is
\* still suspended: the earlier event's emits come first.
C25_PerConnectionOrder ==
    [][(pending' = pending /\ sockets' = sockets /\ out' # <<>>) =>
          \A p \in pending : p.h \in EventHandlers => p.s # out'[1].to]_vars

\* C26: the registry entry of a user records only rooms that the socket it
\* names is joined to, and a handler that resumes for a closed or superseded
\* socket changes no registry entry.
C26_AwaitDiscipline ==
    [][/\ \A e \in onlineUsers' : e.rooms \subseteq joined'[e.socketId]
       /\ \A p \in pending :
             (/\ p \notin pending'
              /\ (sockets[p.s].status = "closed" \/ Superseded(p.s))) =>
                 onlineUsers' = onlineUsers]_vars

\* C27: in the step that creates the registry entry of a socket, the socket
\* is joined to every active room whose stored membership includes the user
\* and the entry records exactly those rooms.
C27_JoinedAtRegistration ==
    [][\A e \in onlineUsers' :
          (\A f \in onlineUsers : f.socketId # e.socketId) =>
              /\ UserRooms(e.userId) \subseteq joined'[e.socketId]
              /\ e.rooms = UserRooms(e.userId)]_vars

\* The credential is missing, fails verification, or names no active user.
InvalidCredential(token) == ~token.present \/ ~token.signed \/ token.userId \notin Users

\* C29: a socket whose handshake carried an invalid credential is refused: it
\* never has a registry entry, a room, a suspended handler or an emit
\* addressed to it, and the step that refuses it emits nothing and leaves
\* the registry and the stored state alone.
C29_UnauthenticatedNeverRegistered ==
    [][\A s \in SocketIds :
          (sockets'[s].status # "new" /\ InvalidCredential(sockets'[s].token)) =>
              /\ sockets'[s].status = "rejected"
              /\ joined'[s] = {}
              /\ \A e \in onlineUsers' : e.socketId # s
              /\ \A p \in pending' : p.s # s
              /\ \A i \in DOMAIN out' : out'[i].to # s
              /\ sockets[s].status = "new" =>
                     (out' = <<>> /\ onlineUsers' = onlineUsers /\ db' = db)]_vars

\* A handshake naming a deactivated account was refused while another user
\* is connected and registered.
C29_Witness ==
    \E s \in SocketIds : \E t \in Connected :
        /\ sockets[s].status = "rejected"
        /\ sockets[s].token.userId \in Deactivated
        /\ Registered(t)

C31_TypingStartAudience ==
    [][\A i \in Emits(out', "typing_start", SocketIds) :
          LET u == out'[i].user
              to == out'[i].to
              v == UserOf(to)
          IN /\ v # u
             /\ to \in Connected
             /\ IF out'[i].room # None THEN to \in InRoom(joined, out'[i].room)
                ELSE /\ Registered(to)
                     /\ getConversationKey(u, v) \in DOMAIN privateTyping'
                     /\ privateTyping'[getConversationKey(u, v)].userId = u]_vars

\* C32: every write of a private typing session stamps it with the current
\* time, and the sweep removes a session only when at least the timeout has
\* passed since that stamp.
C32_SweepSparesFreshSessions ==
    [][/\ \A k \in DOMAIN privateTyping' :
             (k \notin DOMAIN privateTyping \/ privateTyping'[k] # privateTyping[k]) =>
                 privateTyping'[k].startTime = now'
       /\ \A k \in DOMAIN privateTyping :
             SweepRemoves(k) => now >= privateTyping[k].startTime + TYPING_TIMEOUT]_vars

\* The sweep has just run, with every socket connected and idle, and a
\* session that was started or refreshed after the previous sweep is still
\* in the map.
C32_Witness ==
    /\ lastSweep = now
    /\ now > 0
    /\ out = <<>>
    /\ pending = {}
    /\ Cardinality(Connected) = MaxSockets
    /\ \A u \in Users : MapHas(onlineUsers, u)
    /\ \E k \in DOMAIN privateTyping :
          /\ privateTyping[k].startTime > 0
          /\ now - privateTyping[k].startTime <= TYPING_TIMEOUT

\* The join_room of task p succeeds in this step for a socket that is already
\* in the room.
Rejoins(p) ==
    /\ p \in pending
    /\ p.h = "join"
    /\ p \notin pending'
    /\ Emits(out', "room_joined", {p.s}) # {}
    /\ p.room \in joined[p.s]

\* C33: a successful join_room{R} of a socket that is already in R leaves
\* every socket's rooms as they were, and when the registry entry of the user
\* names that socket it leaves the registry as it was.
C33_IdempotentJoin ==
    [][\A p \in pending :
          Rejoins(p) =>
              /\ joined' = joined
              /\ \A r \in Rooms : InRoom(joined', r) = InRoom(joined, r)
              /\ Registered(p.s) => onlineUsers' = onlineUsers]_vars

\* C34: the key of (a, b) is the key of (b, a), and the keys of two pairs are
\* equal only when the pairs hold the same two ids.
C34_ConversationKeySymmetric ==
    keys.ab # <<>> =>
        /\ keys.ab = keys.ba
        /\ keys.ab = keys.cd => {keys.a, keys.b} = {keys.c, keys.d}

\* The keys were computed for a pair given in descending order, one id a
\* proper prefix of the other, and for a different pair of the same length.
C34_Witness ==
    /\ keys.ab # <<>>
    /\ Less(keys.b, keys.a)
    /\ Len(keys.b) < Len(keys.a)
    /\ keys.b = SubSeq(keys.a, 1, Len(keys.b))
    /\ {keys.a, keys.b} # {keys.c, keys.d}
    /\ Len(keys.cd) = Len(keys.ab)

\* C35: a private typing_start or typing_stop of A that is delivered to B
\* leaves a session of the conversation whose typist is B in the map.
C35_BothTypistsTracked ==
    [][\A i \in DOMAIN out' :
          (out'[i].ev \in {"typing_start", "typing_stop"} /\ out'[i].room = None) =>
              LET a == out'[i].user
                  b == UserOf(out'[i].to)
                  k == getConversationKey(a, b)
              IN (a # b /\ TypistOf(privateTyping, k, b)) => TypistOf(privateTyping', k, b)]_vars

\* The private session of the conversation of socket t with typist u is taken
\* over in this step by a typing_start of the user of t, or deleted by a
\* typing_stop of that user.
TakenOver(t, u) ==
    LET k == getConversationKey(u, UserOf(t))
    IN \/ k \in DOMAIN privateTyping' /\ privateTyping'[k].userId = UserOf(t)
       \/ \E i \in DOMAIN out' : /\ out'[i].ev = "typing_stop"
                                  /\ out'[i].room = None
                                  /\ out'[i].user = UserOf(t)

\* C36: when the typing session of A for a scope is removed in a step (other
\* than by the receiving user's own typing_start or typing_stop in the same
\* private conversation), every socket of another user that was sent A's
\* typing_start for the scope, is shown it still and stays connected (and in
\* the room) is sent a typing_stop of A for the scope in that step.
C36_NoStuckIndicator ==
    [][\A x \in indicators.set :
          (/\ sockets'[x[1]].status = "connected"
           /\ UserOf(x[1]) # x[2]
           /\ x[3] # None => x[3] \in joined'[x[1]]
           /\ ~HasSessionIn(typingUsers', privateTyping', sockets', x[1], x[2], x[3])
           /\ ~(x[3] = None /\ TakenOver(x[1], x[2]))) =>
              \E i \in Emits(out', "typing_stop", {x[1]}) :
                  out'[i].user = x[2] /\ out'[i].room = x[3]]_vars

\* C37: every user in typingUsers[R] has a connected socket that the registry
\* names for the user and that is joined to R.
C37_TypistsAreJoined ==
    \A r \in DOMAIN typingUsers : \A u \in typingUsers[r] :
        \E s \in Connected :
            /\ UserOf(s) = u
            /\ MapHas(onlineUsers, u)
            /\ MapGet(onlineUsers, u).socketId = s
            /\ r \in joined[s]

\* C38: while no connection or disconnection handler is suspended, a user is
\* stored online exactly when the registry has an entry for the user.
C38_PresenceConsistent ==
    (\A p \in pending : p.h \notin {"connect", "connect2", "disconnect"}) =>
        \A u \in Users : isOnline[u] <=> MapHas(onlineUsers, u)
====
